---- MODULE Spec2Model ----
(***************************************************************************)
(* Matching-cost factors of gtsam_points: the correspondence cache         *)
(* (update_correspondences) and the parallel cost / derivative evaluator   *)
(* (evaluate) of IntegratedGICPFactor_ ("gicp") and                        *)
(* IntegratedColorConsistencyFactor_ ("color").                            *)
(*                                                                         *)
(* Numbers are exact: a real value is an integer numerator over a positive *)
(* denominator in lowest terms, a real matrix an integer matrix over one   *)
(* positive denominator in lowest terms.  Vectors are tuples, matrices     *)
(* tuples of rows.  Indices of clouds and of the per-thread vectors are    *)
(* 0-based as in the code.                                                 *)
(***************************************************************************)
EXTENDS Integers, Sequences, FiniteSets, TLC

----------------------------------------------------------------------------
(* Exact arithmetic *)

Abs(x) == IF x < 0 THEN -x ELSE x

RECURSIVE Gcd(_, _)
Gcd(a, b) == IF b = 0 THEN a ELSE Gcd(b, a % b)

\* the sum of the first k entries of s
RECURSIVE SumTo(_, _)
SumTo(s, k) == IF k = 0 THEN 0 ELSE s[k] + SumTo(s, k - 1)
SeqSum(s) == SumTo(s, Len(s))

\* the gcd of the first k entries of s, stopping once it is 1
RECURSIVE GcdTo(_, _, _)
GcdTo(s, k, g) ==
  IF k = 0 \/ g = 1 THEN g ELSE GcdTo(s, k - 1, Gcd(Abs(s[k]), g))

\* a scalar n/d in lowest terms (d > 0)
Q(n, d) == LET g == Gcd(Abs(n), d) IN [n |-> n \div g, d |-> d \div g]
QZero == [n |-> 0, d |-> 1]
QAdd(a, b) == Q(a.n * b.d + b.n * a.d, a.d * b.d)

\* a vector v/d in lowest terms
QV(v, d) ==
  LET g == GcdTo(v, Len(v), d)
  IN [n |-> [k \in 1..Len(v) |-> v[k] \div g], d |-> d \div g]
QVAdd(a, b) ==
  QV([k \in 1..Len(a.n) |-> a.n[k] * b.d + b.n[k] * a.d], a.d * b.d)

\* a matrix m/d in lowest terms
RECURSIVE MatGcdTo(_, _, _)
MatGcdTo(m, k, g) ==
  IF k = 0 \/ g = 1 THEN g ELSE MatGcdTo(m, k - 1, GcdTo(m[k], Len(m[k]), g))
QM(m, d) ==
  LET g == MatGcdTo(m, Len(m), d)
  IN [n |-> [i \in 1..Len(m) |-> [j \in 1..Len(m[i]) |-> m[i][j] \div g]],
      d |-> d \div g]
QMAdd(a, b) ==
  QM([i \in 1..Len(a.n) |->
        [j \in 1..Len(a.n[i]) |-> a.n[i][j] * b.d + b.n[i][j] * a.d]],
     a.d * b.d)

----------------------------------------------------------------------------
(* Integer linear algebra *)

RECURSIVE DotTo(_, _, _)
DotTo(u, v, k) == IF k = 0 THEN 0 ELSE u[k] * v[k] + DotTo(u, v, k - 1)
Dot(u, v) == DotTo(u, v, Len(u))
VecAdd(u, v) == [k \in 1..Len(u) |-> u[k] + v[k]]
VecSub(u, v) == [k \in 1..Len(u) |-> u[k] - v[k]]
VecScale(c, u) == [k \in 1..Len(u) |-> c * u[k]]
Col(M, j) == [i \in 1..Len(M) |-> M[i][j]]
Transpose(M) == [j \in 1..Len(M[1]) |-> Col(M, j)]
MatVec(M, v) == [i \in 1..Len(M) |-> Dot(M[i], v)]
MatMul(A, B) ==
  LET BT == Transpose(B)
  IN [i \in 1..Len(A) |-> [j \in 1..Len(BT) |-> Dot(A[i], BT[j])]]
MatAdd(A, B) == [i \in 1..Len(A) |-> VecAdd(A[i], B[i])]
MatNeg(A) == [i \in 1..Len(A) |-> VecScale(-1, A[i])]
MatScale(c, A) == [i \in 1..Len(A) |-> VecScale(c, A[i])]
ZeroVec(n) == [k \in 1..n |-> 0]
ZeroMat(m, n) == [i \in 1..m |-> ZeroVec(n)]
Identity(n) == [i \in 1..n |-> [j \in 1..n |-> IF i = j THEN 1 ELSE 0]]
Outer(u, v) == [i \in 1..Len(u) |-> VecScale(u[i], v)]
Head3(v) == <<v[1], v[2], v[3]>>
SetEntry(M, r, c, x) == [M EXCEPT ![r][c] = x]

\* the matrix without row r and column c
Minor(M, r, c) ==
  LET n == Len(M)
      Keep(k, x) == IF k < x THEN k ELSE k + 1
  IN [i \in 1..(n - 1) |-> [j \in 1..(n - 1) |-> M[Keep(i, r)][Keep(j, c)]]]

Sign(k) == IF k % 2 = 0 THEN 1 ELSE -1

RECURSIVE Det(_)
Det(M) ==
  IF Len(M) = 1 THEN M[1][1]
  ELSE IF Len(M) = 2 THEN M[1][1] * M[2][2] - M[1][2] * M[2][1]
  ELSE SeqSum([j \in 1..Len(M) |-> Sign(1 + j) * M[1][j] * Det(Minor(M, 1, j))])

Adjugate(M) ==
  [i \in 1..Len(M) |-> [j \in 1..Len(M) |-> Sign(i + j) * Det(Minor(M, j, i))]]

\* Eigen's Matrix4d::inverse() of an invertible matrix, exactly
Inverse(M) ==
  LET dt == Det(M)
  IN QM(MatScale(IF dt < 0 THEN -1 ELSE 1, Adjugate(M)), Abs(dt))

\* gtsam::SO3::Hat
Hat(v) == << <<0, -v[3], v[2]>>, <<v[3], 0, -v[1]>>, <<-v[2], v[1], 0>> >>

\* a 4x6 matrix whose first three rows are [A | B] and whose last row is zero
Blocks46(A, B) ==
  [i \in 1..4 |-> IF i = 4 THEN ZeroVec(6) ELSE A[i] \o B[i]]

----------------------------------------------------------------------------
(* Rigid transforms (Eigen::Isometry3d): rotation R and translation t *)

Iso(R, t) == [R |-> R, t |-> t]
IsoIdentity == Iso(Identity(3), ZeroVec(3))

\* delta.matrix()
IsoMatrix(d) ==
  [i \in 1..4 |-> IF i = 4 THEN <<0, 0, 0, 1>> ELSE d.R[i] \o <<d.t[i]>>]

\* delta.inverse()
IsoInverse(d) ==
  Iso(Transpose(d.R), VecScale(-1, MatVec(Transpose(d.R), d.t)))

\* a * b
IsoMul(a, b) == Iso(MatMul(a.R, b.R), VecAdd(MatVec(a.R, b.t), a.t))

\* delta * (homogeneous 4-vector)
IsoApply(d, p) == MatVec(IsoMatrix(d), p)

----------------------------------------------------------------------------
(* Bounds of the model and the inputs drawn within them *)

MaxSource == 2      \* source clouds have 0..MaxSource points
MaxTarget == 2      \* the target cloud has MaxTarget points
MaxThreads == 2     \* num_threads is configured in 1..MaxThreads
MaxSqDist == 1      \* knn_search reports squared distances in 0..MaxSqDist

AllAttributes == {"points", "normals", "covs", "intensities"}

\* Rotation by a quarter turn about the z axis.
RotZ == << <<0, -1, 0>>, <<1, 0, 0>>, <<0, 0, 1>> >>

\* The poses handed to update_correspondences and evaluate.
Deltas ==
  { Iso(Identity(3), <<-1, 0, 0>>),
    IsoIdentity,
    Iso(RotZ, <<1, 0, 0>>) }

\* Tolerances (rotation in quarter turns, translation in length units).
Tolerances == { <<0, 0>>, <<2, 2>>, <<0, 2>>, <<2, 0>>, <<1, 2>> }

\* max_correspondence_distance_sq after configuration.
MaxDistances == {0, 1}

\* Attribute tables of the frames read through frame::point, frame::cov,
\* frame::normal, frame::intensity and frame::intensity_gradient.
SourcePoint(i) == <<1 - i, i, 0, 1>>
SourceCov(i) ==
  IF i % 2 = 0
  THEN << <<1, 0, 0, 0>>, <<0, 1, 0, 0>>, <<0, 0, 1, 0>>, <<0, 0, 0, 0>> >>
  ELSE << <<2, 0, 0, 0>>, <<0, 1, 0, 0>>, <<0, 0, 1, 0>>, <<0, 0, 0, 1>> >>
SourceIntensity(i) == i + 1
TargetPoint(j) == <<1, j, -j, 1>>
TargetCov(j) ==
  << <<1, 0, 0, 0>>, <<0, 1 + (j % 2), 0, 0>>, <<0, 0, 1, 0>>, <<0, 0, 0, 0>> >>
TargetNormal(j) == IF j % 2 = 0 THEN <<0, 0, 1, 0>> ELSE <<0, 1, 0, 0>>
TargetIntensity(j) == 2 * j
TargetGradient(j) == <<1, j, 0, 0>>

OutputNames ==
  {"H_target", "H_source", "H_target_source", "b_target", "b_source"}

\* The derivative outputs a caller passes to evaluate: none, all five, or a
\* subset with or without H_target.
OutputChoices ==
  { {}, OutputNames, {"H_target"}, OutputNames \ {"H_target"} }

Zero66 == [n |-> ZeroMat(6, 6), d |-> 1]
Zero61 == [n |-> ZeroVec(6), d |-> 1]
Zero44 == [n |-> ZeroMat(4, 4), d |-> 1]

\* What a caller's output block holds before the call.
EntryBlock66 == [n |-> [i \in 1..6 |-> [j \in 1..6 |-> 1]], d |-> 1]
EntryBlock61 == [n |-> [i \in 1..6 |-> 1], d |-> 1]

----------------------------------------------------------------------------
(* Pure parts of update_correspondences *)

\* Eigen::AngleAxisd(R).angle() in quarter turns, for the rotations that
\* compositions of the modelled poses produce (trace 3, 1 or -1).
RotationAngle(R) ==
  LET trace == R[1][1] + R[2][2] + R[3][3]
  IN CASE trace = 3 -> 0
       [] trace = 1 -> 1
       [] trace = -1 -> 2

\* v.norm() < tol, decided on the squares
NormBelow(v, tol) == tol > 0 /\ Dot(v, v) < tol * tol

\* diff_rot < tolerance_rot && diff_trans < tolerance_trans, for
\* diff = delta.inverse() * last_correspondence_point
WithinToleranceInclusive(delta, ref, tol_rot, tol_trans) ==
  LET diff == IsoMul(IsoInverse(delta), ref)
  IN RotationAngle(diff.R) <= tol_rot /\ Dot(diff.t, diff.t) <= tol_trans * tol_trans
WithinTolerance(delta, ref, tol_rot, tol_trans) ==
  LET diff == IsoMul(IsoInverse(delta), ref)
      diff_rot == RotationAngle(diff.R)
  IN diff_rot < tol_rot /\ NormBelow(diff.t, tol_trans)

\* the tolerance test is reached: the array is sized to the source and a
\* tolerance is configured
ToleranceTestedLoose(size_now, size_source, tol_rot, tol_trans) ==
  tol_trans > 0 \/ tol_rot > 0
ToleranceTested(size_now, size_source, tol_rot, tol_trans) ==
  size_now = size_source /\ (tol_trans > 0 \/ tol_rot > 0)

\* the value stored in correspondences[i] from one knn_search answer
CorrespondenceInclusive(num_found, k_index, k_sq_dist, max_sq) ==
  IF num_found > 0 /\ k_sq_dist <= max_sq THEN k_index ELSE -1
Correspondence(num_found, k_index, k_sq_dist, max_sq) ==
  IF num_found > 0 /\ k_sq_dist < max_sq THEN k_index ELSE -1

\* target_index < 0: the point has no correspondence
NoCorrespondenceBelowSentinel(target_index) == target_index < -1
NoCorrespondence(target_index) == target_index < 0

\* mahalanobis[i] for source point i matched to target_index under delta
Mahalanobis(delta, i, target_index) ==
  IF target_index < 0 THEN Zero44
  ELSE LET D == IsoMatrix(delta)
           RCR == MatAdd(TargetCov(target_index),
                         MatMul(MatMul(D, SourceCov(i)), Transpose(D)))
           inv == Inverse(SetEntry(RCR, 4, 4, 1))
       IN QM(SetEntry(inv.n, 4, 4, 0), inv.d)

----------------------------------------------------------------------------
(* Pure parts of evaluate: one matched source point *)

\* IntegratedGICPFactor_: 0.5 * error^T * mahalanobis[i] * error
GicpCost(delta, i, target_index, W) ==
  LET error == VecSub(TargetPoint(target_index), IsoApply(delta, SourcePoint(i)))
  IN Q(Dot(error, MatVec(W.n, error)), 2 * W.d)

\* IntegratedGICPFactor_: the five blocks added to the thread's accumulators
GicpBlocks(delta, i, target_index, W) ==
  LET mean_A == SourcePoint(i)
      transed_mean_A == IsoApply(delta, mean_A)
      error == VecSub(TargetPoint(target_index), transed_mean_A)
      J_target == Blocks46(MatNeg(Hat(Head3(transed_mean_A))), Identity(3))
      J_source == Blocks46(MatMul(delta.R, Hat(Head3(mean_A))), MatNeg(delta.R))
      J_target_mahalanobis == MatMul(Transpose(J_target), W.n)
      J_source_mahalanobis == MatMul(Transpose(J_source), W.n)
  IN [H_target |-> QM(MatMul(J_target_mahalanobis, J_target), W.d),
      H_source |-> QM(MatMul(J_source_mahalanobis, J_source), W.d),
      H_target_source |-> QM(MatMul(J_target_mahalanobis, J_source), W.d),
      b_target |-> QV(MatVec(J_target_mahalanobis, error), W.d),
      b_source |-> QV(MatVec(J_source_mahalanobis, error), W.d)]

\* IntegratedColorConsistencyFactor_: error_photo
ErrorPhoto(delta, i, target_index) ==
  LET mean_B == TargetPoint(target_index)
      normal_B == TargetNormal(target_index)
      transed_A == IsoApply(delta, SourcePoint(i))
      projected ==
        VecSub(transed_A, VecScale(Dot(VecSub(transed_A, mean_B), normal_B), normal_B))
      offset == VecSub(projected, mean_B)
  IN TargetIntensity(target_index) + Dot(TargetGradient(target_index), offset)
       - SourceIntensity(i)

\* IntegratedColorConsistencyFactor_: 0.5 * error_photo * weight * error_photo
ColorCost(delta, i, target_index, weight) ==
  LET error_photo == ErrorPhoto(delta, i, target_index)
  IN Q(error_photo * weight * error_photo, 2)

\* IntegratedColorConsistencyFactor_: the five blocks added to the accumulators
ColorBlocks(delta, i, target_index, weight) ==
  LET mean_A == SourcePoint(i)
      normal_B == TargetNormal(target_index)
      transed_A == IsoApply(delta, mean_A)
      error_photo == ErrorPhoto(delta, i, target_index)
      J_transed_target == Blocks46(Hat(Head3(transed_A)), MatNeg(Identity(3)))
      J_transed_source ==
        Blocks46(MatNeg(MatMul(delta.R, Hat(Head3(mean_A)))), delta.R)
      J_projected_transed ==
        SetEntry(MatAdd(Identity(4), MatNeg(Outer(normal_B, normal_B))), 4, 4, 0)
      J_ephoto_transed ==
        MatVec(Transpose(J_projected_transed), TargetGradient(target_index))
      J_ephoto_target == MatVec(Transpose(J_transed_target), J_ephoto_transed)
      J_ephoto_source == MatVec(Transpose(J_transed_source), J_ephoto_transed)
  IN [H_target |-> QM(MatScale(weight, Outer(J_ephoto_target, J_ephoto_target)), 1),
      H_source |-> QM(MatScale(weight, Outer(J_ephoto_source, J_ephoto_source)), 1),
      H_target_source |->
        QM(MatScale(weight, Outer(J_ephoto_target, J_ephoto_source)), 1),
      b_target |-> QV(VecScale(weight * error_photo, J_ephoto_target), 1),
      b_source |-> QV(VecScale(weight * error_photo, J_ephoto_source), 1)]

\* The values of Mahalanobis, GicpBlocks and ColorBlocks on the modelled
\* inputs, computed once; the operators below look them up and compute
\* directly outside the tables.
MahalanobisTable ==
  [d \in Deltas |-> [i \in 0..MaxSource |-> [k \in (-1)..MaxTarget |->
     Mahalanobis(d, i, k)]]]
MahalanobisAt(delta, i, target_index) ==
  IF delta \in Deltas /\ i \in 0..MaxSource /\ target_index \in (-1)..MaxTarget
  THEN MahalanobisTable[delta][i][target_index]
  ELSE Mahalanobis(delta, i, target_index)

WeightsOf(i, k) == {MahalanobisTable[d][i][k] : d \in Deltas}
GicpBlocksTable ==
  [d \in Deltas |-> [i \in 0..MaxSource |-> [k \in (-1)..MaxTarget |->
     [W \in WeightsOf(i, k) |-> GicpBlocks(d, i, k, W)]]]]
GicpBlocksAt(delta, i, target_index, W) ==
  IF /\ delta \in Deltas /\ i \in 0..MaxSource /\ target_index \in (-1)..MaxTarget
     /\ W \in WeightsOf(i, target_index)
  THEN GicpBlocksTable[delta][i][target_index][W]
  ELSE GicpBlocks(delta, i, target_index, W)

ColorBlocksTable ==
  [d \in Deltas |-> [i \in 0..MaxSource |-> [k \in (-1)..MaxTarget |->
     ColorBlocks(d, i, k, 1)]]]
ColorBlocksAt(delta, i, target_index, weight) ==
  IF /\ delta \in Deltas /\ i \in 0..MaxSource /\ target_index \in (-1)..MaxTarget
     /\ weight = 1
  THEN ColorBlocksTable[delta][i][target_index]
  ELSE ColorBlocks(delta, i, target_index, weight)

ZeroBlocks ==
  [H_target |-> Zero66, H_source |-> Zero66, H_target_source |-> Zero66,
   b_target |-> Zero61, b_source |-> Zero61]

\* a += b on the five blocks
AddBlocks(a, b) ==
  [H_target |-> QMAdd(a.H_target, b.H_target),
   H_source |-> QMAdd(a.H_source, b.H_source),
   H_target_source |-> QMAdd(a.H_target_source, b.H_target_source),
   b_target |-> QVAdd(a.b_target, b.b_target),
   b_source |-> QVAdd(a.b_source, b.b_source)]

----------------------------------------------------------------------------
(* State *)

VARIABLES
  policy,                       \* "gicp" | "color": which factor this is
  target, source,               \* the frames: [size, has]
  num_threads,
  max_correspondence_distance_sq,
  correspondence_update_tolerance_rot,
  correspondence_update_tolerance_trans,
  photometric_term_weight,
  correspondences,              \* [0..size-1 -> target index or -1]
  mahalanobis,                  \* [0..size-1 -> 4x4 weight] (gicp)
  last_correspondence_point,    \* a pose, or Uninit until first written
  pc,                           \* "constructed" | "aborted" | "idle" |
                                \* "update" | "evaluate" | "returned" |
                                \* "crashed"
  call,                         \* the running or last returned call
  do_update,                    \* update_correspondences' local
  pending,                      \* loop iterations no thread has taken yet
  cur,                          \* per thread: the iteration it is inside
  sum_errors,                   \* per thread: private copy of the reduction
  Hs,                           \* per thread: the five accumulators
  outputs,                      \* the caller's five output blocks
  ret,                          \* the value evaluate returned
  queries,                      \* knn_search calls made by the current call
  last_query,                   \* the latest knn_search call and its answer
  searched_at,                  \* delta of the latest call that searched
  knn_written,                  \* entries stored from a knn_search answer
  read_uninit,                  \* the reference pose was read before written
  oob_write                     \* an accumulator was written out of bounds

configVars ==
  <<policy, target, source, num_threads, max_correspondence_distance_sq,
    correspondence_update_tolerance_rot, correspondence_update_tolerance_trans,
    photometric_term_weight>>
cacheVars ==
  <<correspondences, mahalanobis, last_correspondence_point, do_update,
    searched_at, knn_written, read_uninit>>
queryVars == <<queries, last_query>>
evalVars == <<cur, sum_errors, Hs>>
vars ==
  <<configVars, cacheVars, queryVars, evalVars, pc, call, pending, outputs,
    ret, oob_write>>

NoCall == [op |-> "none"]
NoWork == [i |-> -1]
Uninit == [uninit |-> TRUE]      \* a value never written
Never == [never |-> TRUE]        \* no call has searched yet
Null == [null |-> TRUE]          \* an output pointer that was not given
NoReturn == [none |-> TRUE]      \* evaluate has not returned
NoQuery == [i |-> -1]
Empty == [i \in {} |-> 0]

Size(f) == Cardinality(DOMAIN f)
Indices(n) == 0..(n - 1)
Team == Indices(num_threads)

\* std::vector::resize(n): kept elements stay, new elements hold fill
Resize(f, n, fill) ==
  [i \in Indices(n) |-> IF i \in DOMAIN f THEN f[i] ELSE fill]

----------------------------------------------------------------------------
(* Construction *)

RequiredOfTargetPointsOnly(pol) == {"points"}
RequiredOfTarget(pol) ==
  IF pol = "gicp" THEN {"points", "covs"} ELSE {"points", "normals", "intensities"}
RequiredOfSource(pol) ==
  IF pol = "gicp" THEN {"points", "covs"} ELSE {"points", "intensities"}

\* The constructor: member initializers, then the attribute checks.
Constructor(pol, tgt, src) ==
  /\ policy = pol
  /\ target = tgt
  /\ source = src
  /\ num_threads = 1
  /\ max_correspondence_distance_sq = 1
  /\ correspondence_update_tolerance_rot = 0
  /\ correspondence_update_tolerance_trans = 0
  /\ photometric_term_weight = 1
  /\ correspondences = Empty
  /\ mahalanobis = Empty
  /\ last_correspondence_point = Uninit
  /\ pc = IF /\ RequiredOfTarget(pol) \subseteq tgt.has
             /\ RequiredOfSource(pol) \subseteq src.has
          THEN "constructed" ELSE "aborted"
  /\ call = NoCall
  /\ do_update = FALSE
  /\ pending = {}
  /\ cur = Empty
  /\ sum_errors = Empty
  /\ Hs = Empty
  /\ outputs = [o \in OutputNames |-> Null]
  /\ ret = NoReturn
  /\ queries = 0
  /\ last_query = NoQuery
  /\ searched_at = Never
  /\ knn_written = {}
  /\ read_uninit = FALSE
  /\ oob_write = FALSE

InitWith(attributeChoices) ==
  \E pol \in {"gicp", "color"}, n \in 0..MaxSource,
     th \in attributeChoices, sh \in attributeChoices :
    Constructor(pol, [size |-> MaxTarget, has |-> th], [size |-> n, has |-> sh])

\* Frames with every attribute, or lacking their points.
Init == InitWith({AllAttributes, AllAttributes \ {"points"}})

\* The setters called once after construction (set_num_threads,
\* set_max_correspondence_distance, set_correspondence_update_tolerance).
Configure ==
  /\ pc = "constructed"
  /\ \E T \in 1..MaxThreads, m \in MaxDistances, tol \in Tolerances :
       /\ num_threads' = T
       /\ max_correspondence_distance_sq' = m
       /\ correspondence_update_tolerance_rot' = tol[1]
       /\ correspondence_update_tolerance_trans' = tol[2]
  /\ pc' = "idle"
  /\ UNCHANGED <<policy, target, source, photometric_term_weight, cacheVars,
                 queryVars, evalVars, call, pending, outputs, ret, oob_write>>

----------------------------------------------------------------------------
(* update_correspondences *)

\* What knn_search(pt, 1, &k_index, &k_sq_dist, max) can answer: nothing
\* found (the caller's k_index and k_sq_dist keep -1), or one target index
\* with its squared distance, whether or not the distance is within max.
KnnAnswers ==
  {[num_found |-> 0, k_index |-> -1, k_sq_dist |-> -1]} \cup
  {[num_found |-> 1, k_index |-> j, k_sq_dist |-> d] :
     j \in Indices(target.size), d \in 0..MaxSqDist}

\* the query point handed to knn_search
QueryPoint(delta, i) ==
  LET pt == IsoApply(delta, SourcePoint(i))
  IN IF policy = "color" THEN [pt EXCEPT ![4] = SourceIntensity(i)] ELSE pt

\* do_update after the tolerance test against the reference pose ref
DoUpdateIgnoringSize(delta, ref) ==
  ~ /\ ToleranceTestedLoose(Size(correspondences), source.size,
                            correspondence_update_tolerance_rot,
                            correspondence_update_tolerance_trans)
    /\ WithinTolerance(delta, ref, correspondence_update_tolerance_rot,
                       correspondence_update_tolerance_trans)
DoUpdate(delta, ref) ==
  ~ /\ ToleranceTested(Size(correspondences), source.size,
                       correspondence_update_tolerance_rot,
                       correspondence_update_tolerance_trans)
    /\ WithinTolerance(delta, ref, correspondence_update_tolerance_rot,
                       correspondence_update_tolerance_trans)

\* The values last_correspondence_point can yield when read: the pose
\* written last, or any pose while it was never written.
ReferenceRead ==
  IF last_correspondence_point = Uninit THEN Deltas
  ELSE {last_correspondence_point}

\* gicp: if (do_update) last_correspondence_point = delta, before the loop
GicpReferenceAfterDecision(delta, upd) ==
  IF upd THEN delta ELSE last_correspondence_point

\* color: last_correspondence_point = delta, after the loop
ColorReferenceAfterLoop(delta, upd) == delta

\* The function up to its parallel loop: the decision and the resizes.
BeginUpdate(delta) ==
  \E ref \in ReferenceRead :
    LET upd == DoUpdate(delta, ref)
    IN /\ do_update' = upd
       /\ read_uninit' =
            \/ read_uninit
            \/ /\ last_correspondence_point = Uninit
               /\ ToleranceTested(Size(correspondences), source.size,
                                  correspondence_update_tolerance_rot,
                                  correspondence_update_tolerance_trans)
       /\ last_correspondence_point' =
            IF policy = "gicp" THEN GicpReferenceAfterDecision(delta, upd)
            ELSE last_correspondence_point
       /\ searched_at' = IF upd THEN delta ELSE searched_at
       /\ correspondences' = Resize(correspondences, source.size, 0)
       /\ mahalanobis' =
            IF policy = "gicp" THEN Resize(mahalanobis, source.size, Uninit)
            ELSE mahalanobis
       /\ knn_written' = knn_written \cap Indices(source.size)
       /\ pending' = Indices(source.size)
       /\ pc' = "update"

\* a caller invokes update_correspondences(delta)
CallUpdate(delta) ==
  /\ pc = "idle"
  /\ call' = [op |-> "update_correspondences", delta |-> delta, outs |-> {},
              refreshed |-> TRUE,
              entry_match |-> (Size(correspondences) = source.size)]
  /\ BeginUpdate(delta)
  /\ queries' = 0
  /\ last_query' = NoQuery
  /\ outputs' = [o \in OutputNames |-> Null]
  /\ ret' = NoReturn
  /\ oob_write' = FALSE
  /\ UNCHANGED <<configVars, evalVars>>

\* mahalanobis[i] after iteration i: the weight block follows the
\* if (do_update) block and runs in every iteration
WeightStoredOnSearchOnly(old, upd, fresh) == IF upd THEN fresh ELSE old
WeightStored(old, upd, fresh) == fresh

\* for (int i = 0; i < frame::size(*source); i++): the iterations left
\* once iteration i has been handed to a thread
RemainingRevisits(todo, i) == todo
Remaining(todo, i) == todo \ {i}

\* one iteration i of the parallel loop, run by thread t
UpdateStep(t, i) ==
  /\ pc = "update"
  /\ i \in pending
  /\ pending' = Remaining(pending, i)
  /\ IF do_update
     THEN \E a \in KnnAnswers :
            /\ correspondences' =
                 [correspondences EXCEPT
                    ![i] = Correspondence(a.num_found, a.k_index, a.k_sq_dist,
                                          max_correspondence_distance_sq)]
            /\ last_query' = [i |-> i, pt |-> QueryPoint(call.delta, i),
                              max_sq_dist |-> max_correspondence_distance_sq,
                              num_found |-> a.num_found, k_index |-> a.k_index,
                              k_sq_dist |-> a.k_sq_dist]
            /\ queries' = queries + 1
            /\ knn_written' = knn_written \cup {i}
     ELSE UNCHANGED <<correspondences, last_query, queries, knn_written>>
  /\ mahalanobis' =
       IF policy = "gicp"
       THEN [mahalanobis EXCEPT
               ![i] = WeightStored(@, do_update,
                                   MahalanobisAt(call.delta, i,
                                                 correspondences'[i]))]
       ELSE mahalanobis
  /\ UNCHANGED <<configVars, last_correspondence_point, do_update, searched_at,
                 read_uninit, pc, call, outputs, ret, oob_write, evalVars>>

----------------------------------------------------------------------------
(* evaluate *)

\* omp_get_thread_num() of thread t
ThreadNumZero(t) == 0
ThreadNum(t) == t

\* the parallel loop is over: every iteration taken and finished (the
\* barrier that ends an omp parallel for)
LoopDoneNoBarrier == pending = {}
LoopDone == pending = {} /\ \A t \in DOMAIN cur : cur[t] = NoWork

\* the locals before the loop: the reduction copies and the accumulators,
\* allocated only when all five outputs are given
BeginEvaluate(outs) ==
  /\ sum_errors' = [t \in Team |-> QZero]
  /\ cur' = [t \in Team |-> NoWork]
  /\ Hs' = IF outs = OutputNames THEN [t \in Team |-> ZeroBlocks] ELSE Empty
  /\ pending' = Indices(source.size)
  /\ pc' = "evaluate"

\* if (correspondences.size() != frame::size(*source)): the cache is stale
CacheStaleAlways(size_now, size_source) == TRUE
CacheStale(size_now, size_source) == size_now # size_source

\* a caller invokes evaluate(delta, outs...): a stale cache is rebuilt first
CallEvaluate(delta, outs) ==
  /\ pc = "idle"
  /\ call' = [op |-> "evaluate", delta |-> delta, outs |-> outs,
              refreshed |-> CacheStale(Size(correspondences), source.size),
              entry_match |-> (Size(correspondences) = source.size)]
  /\ queries' = 0
  /\ last_query' = NoQuery
  /\ outputs' = [o \in OutputNames |->
                   IF o \notin outs THEN Null
                   ELSE IF o \in {"b_target", "b_source"} THEN EntryBlock61
                   ELSE EntryBlock66]
  /\ ret' = NoReturn
  /\ oob_write' = FALSE
  /\ IF CacheStale(Size(correspondences), source.size)
     THEN BeginUpdate(delta) /\ UNCHANGED evalVars
     ELSE BeginEvaluate(outs) /\ UNCHANGED cacheVars
  /\ UNCHANGED configVars

\* update_correspondences returns: to its caller, or into evaluate
EndUpdate ==
  /\ pc = "update"
  /\ pending = {}
  /\ last_correspondence_point' =
       IF policy = "color" THEN ColorReferenceAfterLoop(call.delta, do_update)
       ELSE last_correspondence_point
  /\ IF call.op = "evaluate"
     THEN BeginEvaluate(call.outs)
     ELSE pc' = "returned" /\ UNCHANGED <<evalVars, pending>>
  /\ UNCHANGED <<configVars, correspondences, mahalanobis, do_update,
                 searched_at, knn_written, read_uninit, queryVars, call,
                 outputs, ret, oob_write>>

\* the cost of matched source point i
PointCost(delta, i) ==
  IF policy = "gicp"
  THEN GicpCost(delta, i, correspondences[i], mahalanobis[i])
  ELSE ColorCost(delta, i, correspondences[i], photometric_term_weight)

\* the derivative blocks of matched source point i
PointBlocks(delta, i) ==
  IF policy = "gicp"
  THEN GicpBlocksAt(delta, i, correspondences[i], mahalanobis[i])
  ELSE ColorBlocksAt(delta, i, correspondences[i], photometric_term_weight)

\* the test that ends an iteration before its derivative part:
\* gicp tests Hs_target.empty(), color tests !H_target
DerivativesSkipped(outs) ==
  IF policy = "gicp" THEN Hs = Empty ELSE "H_target" \notin outs

\* the thread's reduction copy after the iteration of a matched point
SumAfterDerivativesOnly(sum, cost, skipped) ==
  IF skipped THEN sum ELSE QAdd(sum, cost)
SumAfter(sum, cost, skipped) == QAdd(sum, cost)

\* Thread t takes iteration i and runs it up to the accumulator updates.
EvalTake(t, i) ==
  /\ pc = "evaluate"
  /\ cur[t] = NoWork
  /\ i \in pending
  /\ pending' = Remaining(pending, i)
  /\ IF NoCorrespondence(correspondences[i])
     THEN UNCHANGED <<sum_errors, cur, oob_write, pc>>
     ELSE /\ sum_errors' =
               [sum_errors EXCEPT
                  ![t] = SumAfter(@, PointCost(call.delta, i),
                                  DerivativesSkipped(call.outs))]
          /\ IF DerivativesSkipped(call.outs)
             THEN UNCHANGED <<cur, oob_write, pc>>
             ELSE IF ThreadNum(t) \in DOMAIN Hs
             THEN /\ cur' = [cur EXCEPT ![t] = [i |-> i, slot |-> ThreadNum(t),
                                                seen |-> Hs[ThreadNum(t)]]]
                  /\ UNCHANGED <<oob_write, pc>>
             ELSE \* Hs_target[thread_num] on a vector without that element
                  /\ oob_write' = TRUE
                  /\ pc' \in {"evaluate", "crashed"}
                  /\ UNCHANGED cur
  /\ UNCHANGED <<configVars, cacheVars, queryVars, Hs, call, outputs, ret>>

\* Thread t adds the five blocks of its iteration to Hs_*[thread_num].
EvalAccumulate(t) ==
  /\ pc = "evaluate"
  /\ t \in DOMAIN cur
  /\ cur[t] # NoWork
  /\ Hs' = [Hs EXCEPT ![cur[t].slot] =
                        AddBlocks(cur[t].seen, PointBlocks(call.delta, cur[t].i))]
  /\ cur' = [cur EXCEPT ![t] = NoWork]
  /\ UNCHANGED <<configVars, cacheVars, queryVars, sum_errors, pc, call,
                 pending, outputs, ret, oob_write>>

RECURSIVE SumScalars(_, _)
SumScalars(f, n) ==
  IF n = 0 THEN QZero ELSE QAdd(SumScalars(f, n - 1), f[n - 1])

RECURSIVE SumBlocks(_, _)
SumBlocks(f, n) ==
  IF n = 0 THEN ZeroBlocks ELSE AddBlocks(SumBlocks(f, n - 1), f[n - 1])

\* the output blocks after the merge: setZero, then += every thread's slot
MergedKeepingEntry(outs) ==
  IF outs = OutputNames
  THEN LET m == SumBlocks(Hs, num_threads)
       IN [o \in OutputNames |->
             IF o \in {"b_target", "b_source"} THEN QVAdd(outputs[o], m[o])
             ELSE QMAdd(outputs[o], m[o])]
  ELSE outputs
Merged(outs) ==
  IF outs = OutputNames
  THEN LET m == SumBlocks(Hs, num_threads) IN [o \in OutputNames |-> m[o]]
  ELSE outputs

\* After the loop: the reduction, the merge and the return.
EndEvaluate ==
  /\ pc = "evaluate"
  /\ LoopDone
  /\ ret' = SumScalars(sum_errors, num_threads)
  /\ outputs' = Merged(call.outs)
  /\ cur' = Empty
  /\ sum_errors' = Empty
  /\ Hs' = Empty
  /\ pc' = "returned"
  /\ UNCHANGED <<configVars, cacheVars, queryVars, call, pending, oob_write>>

\* The caller has taken the results; the factor waits for its next call.
Return ==
  /\ pc = "returned"
  /\ pc' = "idle"
  /\ call' = NoCall
  /\ do_update' = FALSE
  /\ queries' = 0
  /\ last_query' = NoQuery
  /\ outputs' = [o \in OutputNames |-> Null]
  /\ ret' = NoReturn
  /\ oob_write' = FALSE
  /\ UNCHANGED <<configVars, correspondences, mahalanobis,
                 last_correspondence_point, searched_at, knn_written,
                 read_uninit, evalVars, pending>>

----------------------------------------------------------------------------

Next ==
  \/ Configure
  \/ \E delta \in Deltas : CallUpdate(delta)
  \/ \E t \in Team, i \in Indices(source.size) : UpdateStep(t, i)
  \/ EndUpdate
  \/ \E delta \in Deltas, outs \in OutputChoices : CallEvaluate(delta, outs)
  \/ \E t \in Team, i \in Indices(source.size) : EvalTake(t, i)
  \/ \E t \in Team : EvalAccumulate(t)
  \/ EndEvaluate
  \/ Return

Spec == Init /\ [][Next]_vars

\* The threads of a parallel loop keep running and a function returns after
\* its loop: a call that is running eventually takes its next step. Callers
\* are not obliged to call.
UpdateWork ==
  \/ \E t \in Team, i \in Indices(source.size) : UpdateStep(t, i)
  \/ EndUpdate

\* Inside evaluate (pc = "evaluate") a step is always possible: a pending
\* iteration for an idle thread, else an accumulator update of a busy
\* thread, else the merge and return; and every step of Next taken there is
\* one of these. Weak fairness of evaluate's steps, with that enabling
\* condition written out.
EvaluateWork ==
  []<>(pc # "evaluate") \/ []<><<pc = "evaluate">>_vars

FairSpec == Init /\ [][Next]_vars /\ WF_vars(UpdateWork) /\ EvaluateWork

\* Construction from frames with any set of attributes (one source point).
InitAnyAttributes ==
  \E pol \in {"gicp", "color"},
     th \in SUBSET AllAttributes, sh \in SUBSET AllAttributes :
    Constructor(pol, [size |-> MaxTarget, has |-> th], [size |-> 1, has |-> sh])

ConstructionSpec == InitAnyAttributes /\ [][Next]_vars

----------------------------------------------------------------------------
(* Reference values: sums over the matched source points, in index order *)

RECURSIVE TotalCost(_, _)
TotalCost(delta, n) ==
  IF n = 0 THEN QZero
  ELSE IF correspondences[n - 1] >= 0
       THEN QAdd(TotalCost(delta, n - 1), PointCost(delta, n - 1))
       ELSE TotalCost(delta, n - 1)

RECURSIVE TotalBlocks(_, _)
TotalBlocks(delta, n) ==
  IF n = 0 THEN ZeroBlocks
  ELSE IF correspondences[n - 1] >= 0
       THEN AddBlocks(TotalBlocks(delta, n - 1), PointBlocks(delta, n - 1))
       ELSE TotalBlocks(delta, n - 1)

Matched == {i \in DOMAIN correspondences : correspondences[i] >= 0}
Returned(op) == pc = "returned" /\ call.op = op

----------------------------------------------------------------------------
(* Claims *)

\* C1: in both policies, between calls the stored tolerance reference pose
\* (last_correspondence_point) is the delta of the most recent call whose
\* nearest-neighbor search was performed; a call that skipped the search
\* leaves it unchanged.
C1_ReferenceIsLastSearch ==
  (pc \in {"idle", "returned"} /\ searched_at # Never)
    => last_correspondence_point = searched_at

\* C2: with both tolerances > 0 and the array sized to the source, a call of
\* update_correspondences whose delta is within both tolerances of the delta
\* of the previous performed refresh skips the search: it issues no
\* knn_search and leaves every correspondence unchanged.
C2_CloseRefreshSkipsSearch ==
  [][ /\ ( /\ pc = "idle"
           /\ call'.op = "update_correspondences"
           /\ correspondence_update_tolerance_rot > 0
           /\ correspondence_update_tolerance_trans > 0
           /\ Size(correspondences) = source.size
           /\ searched_at # Never
           /\ WithinTolerance(call'.delta, searched_at,
                              correspondence_update_tolerance_rot,
                              correspondence_update_tolerance_trans) )
          => (~do_update' /\ correspondences' = correspondences /\ queries' = 0)
      /\ (pc = "update" /\ ~do_update)
          => (correspondences' = correspondences /\ queries' = queries)
    ]_vars

\* C3: a call of update_correspondences (direct or from evaluate) searches
\* for every source point when the array length differed from the source
\* size on entry, and when both tolerances are zero.
C3_ForcedSearch ==
  ( /\ pc = "returned"
    /\ call.refreshed
    /\ \/ ~call.entry_match
       \/ /\ correspondence_update_tolerance_rot = 0
          /\ correspondence_update_tolerance_trans = 0 )
    => (do_update /\ queries = source.size)

C3_Witness ==
  /\ Returned("update_correspondences")
  /\ call.entry_match
  /\ correspondence_update_tolerance_rot = 0
  /\ correspondence_update_tolerance_trans = 0
  /\ source.size = MaxSource
  /\ queries = source.size

\* C4: evaluate returns the same cost with all derivative outputs omitted
\* and with all five given: in both cases the sum of the costs of the
\* matched points, which does not mention the outputs.
C4_CostIgnoresDerivatives ==
  (Returned("evaluate") /\ call.outs \in {{}, OutputNames})
    => ret = TotalCost(call.delta, source.size)

C4_Witness ==
  /\ Returned("evaluate")
  /\ call.outs = {}
  /\ Cardinality(Matched) = MaxSource
  /\ ret # QZero

\* C5: for every worker count and every assignment of points to workers,
\* the returned cost and the five merged blocks are the sums of the
\* per-point contributions over the matched source points.
C5_ResultIsSumOverMatched ==
  Returned("evaluate") =>
    /\ ret = TotalCost(call.delta, source.size)
    /\ call.outs = OutputNames =>
         outputs = [o \in OutputNames |-> TotalBlocks(call.delta, source.size)[o]]

\* each of two workers has added a contribution to its own slot
C5_Witness ==
  /\ pc = "evaluate"
  /\ LoopDone
  /\ num_threads >= 2
  /\ Hs # Empty
  /\ Hs[0] # ZeroBlocks
  /\ Hs[1] # ZeroBlocks

\* C6: in the parallel pass a worker adds only to the accumulator slot of
\* its own thread number, no two workers are inside an update of the same
\* slot, and the slots are merged only after every worker has finished.
C6_WorkersOwnTheirSlots ==
  [][ /\ \A t \in DOMAIN cur' : cur'[t] # NoWork => cur'[t].slot = t
      /\ \A t1, t2 \in DOMAIN cur' :
           (t1 # t2 /\ cur'[t1] # NoWork /\ cur'[t2] # NoWork)
             => cur'[t1].slot # cur'[t2].slot
      /\ \A s \in DOMAIN Hs :
           (pc = "evaluate" /\ pc' = "evaluate" /\ Hs'[s] # Hs[s])
             => (cur[s] # NoWork /\ cur'[s] = NoWork
                 /\ \A r \in DOMAIN Hs \ {s} : Hs'[r] = Hs[r])
      /\ (pc = "evaluate" /\ pc' = "returned")
           => (pending = {} /\ \A t \in DOMAIN cur : cur[t] = NoWork)
    ]_vars

\* two workers are inside their accumulator updates at the same time
C6_Witness ==
  /\ pc = "evaluate"
  /\ num_threads >= 2
  /\ cur[0] # NoWork
  /\ cur[1] # NoWork

\* C7: when a call has returned, the correspondence array has one entry per
\* source point (and in gicp the weight array has the same length), and
\* every entry was stored from a knn_search answer for that point: it is -1
\* or the target index the provider returned.
C7_ArrayShape ==
  /\ pc = "returned" =>
       /\ DOMAIN correspondences = Indices(source.size)
       /\ policy = "gicp" => DOMAIN mahalanobis = Indices(source.size)
       /\ \A i \in DOMAIN correspondences :
            /\ i \in knn_written
            /\ correspondences[i] \in {-1} \cup Indices(target.size)
  /\ last_query # NoQuery =>
       correspondences[last_query.i] \in {-1, last_query.k_index}

C7_Witness ==
  /\ pc = "returned"
  /\ source.size = MaxSource
  /\ policy = "gicp"
  /\ ~do_update
  /\ \E i \in DOMAIN correspondences : correspondences[i] = -1
  /\ \E i \in DOMAIN correspondences : correspondences[i] >= 0

\* C8: after a search for source point i, the point is matched to the
\* returned index exactly when the provider found a result whose squared
\* distance is strictly below max_correspondence_distance_sq; otherwise the
\* entry is -1, also when the provider returned a farther result.
C8_StrictDistanceBound ==
  last_query # NoQuery =>
    LET c == correspondences[last_query.i]
        valid == /\ last_query.num_found >= 1
                 /\ last_query.k_sq_dist < max_correspondence_distance_sq
    IN /\ valid => (c = last_query.k_index /\ c >= 0)
       /\ ~valid => c = -1

\* the provider returned a result exactly at the bound; it is discarded
C8_Witness ==
  /\ last_query # NoQuery
  /\ last_query.num_found = 1
  /\ max_correspondence_distance_sq > 0
  /\ last_query.k_sq_dist = max_correspondence_distance_sq
  /\ correspondences[last_query.i] = -1

\* C9: with max_correspondence_distance_sq = 0, after a refresh every
\* correspondence is -1, and evaluate returns cost 0 and, when the five
\* outputs are given, five zero blocks.
C9_ZeroDistanceMatchesNothing ==
  (max_correspondence_distance_sq = 0 /\ pc = "returned") =>
    /\ \A i \in DOMAIN correspondences : correspondences[i] = -1
    /\ call.op = "evaluate" =>
         /\ ret = QZero
         /\ call.outs = OutputNames =>
              outputs = [o \in OutputNames |-> ZeroBlocks[o]]

\* evaluate has searched, the provider answered with a result at distance 0
C9_Witness ==
  /\ max_correspondence_distance_sq = 0
  /\ Returned("evaluate")
  /\ call.outs = OutputNames
  /\ source.size = MaxSource
  /\ last_query # NoQuery
  /\ last_query.num_found = 1
  /\ last_query.k_sq_dist = 0
  /\ outputs["H_target"] = Zero66

\* C10: in evaluate, the iteration of a source point without correspondence
\* adds nothing to the cost and nothing to any accumulator, and starts no
\* accumulator update.
C10_UnmatchedAddsNothing ==
  [][ \A i \in DOMAIN correspondences :
        ( /\ pc = "evaluate"
          /\ i \in pending
          /\ i \notin pending'
          /\ correspondences[i] < 0 )
        => (sum_errors' = sum_errors /\ Hs' = Hs /\ cur' = cur)
    ]_vars

\* an unmatched point has been passed over while derivatives are collected
\* for a matched one
C10_Witness ==
  /\ pc = "evaluate"
  /\ call.outs = OutputNames
  /\ \E i \in DOMAIN correspondences :
       correspondences[i] < 0 /\ i \notin pending
  /\ \E t \in DOMAIN cur : cur[t] # NoWork

\* C11: evaluate(delta) calls update_correspondences(delta), which then
\* searches, exactly when the array length differs from the source size on
\* entry; when the lengths match, no step of the call issues a knn_search or
\* changes the correspondences, the weights or the reference pose.
C11_EvaluateRebuildsWhenStale ==
  [][ /\ (pc = "idle" /\ call'.op = "evaluate") =>
           /\ (pc' = "update") <=> (Size(correspondences) # source.size)
           /\ pc' = "update" => (do_update' /\ searched_at' = call'.delta)
           /\ pc' # "update" => pc' = "evaluate"
      /\ (call'.op = "evaluate" /\ call'.entry_match) =>
           /\ pc' # "update"
           /\ queries' = 0
           /\ correspondences' = correspondences
           /\ mahalanobis' = mahalanobis
           /\ last_correspondence_point' = last_correspondence_point
    ]_vars

\* evaluate has returned for a delta other than the reference pose, on a
\* sized array holding a match, where a refresh would have searched
C11_Witness ==
  /\ Returned("evaluate")
  /\ call.entry_match
  /\ source.size = MaxSource
  /\ correspondence_update_tolerance_rot = 0
  /\ correspondence_update_tolerance_trans = 0
  /\ last_correspondence_point # Uninit
  /\ call.delta # last_correspondence_point
  /\ Matched # {}
  /\ queries = 0

\* C12: the constructor ends in abort exactly when a required attribute is
\* missing (color: target points, normals, intensities and source points,
\* intensities; gicp: points and covariances of both frames); otherwise it
\* completes with num_threads 1, max squared distance 1 and both tolerances
\* 0; an instance whose validation failed never runs a call.
C12_ConstructionValidates ==
  LET lacks(f, attrs) == \E a \in attrs : a \notin f.has
      missing ==
        IF policy = "color"
        THEN \/ lacks(target, {"points", "normals", "intensities"})
             \/ lacks(source, {"points", "intensities"})
        ELSE \/ lacks(target, {"points", "covs"})
             \/ lacks(source, {"points", "covs"})
  IN /\ missing <=> pc = "aborted"
     /\ pc = "constructed" =>
          /\ num_threads = 1
          /\ max_correspondence_distance_sq = 1
          /\ correspondence_update_tolerance_rot = 0
          /\ correspondence_update_tolerance_trans = 0
     /\ missing =>
          /\ call = NoCall
          /\ queries = 0
          /\ ret = NoReturn
          /\ correspondences = Empty
          /\ last_correspondence_point = Uninit

\* a color factor whose frames have only the required attributes has been
\* constructed and has answered an evaluate call
C12_Witness ==
  /\ policy = "color"
  /\ target.has = {"points", "normals", "intensities"}
  /\ source.has = {"points", "intensities"}
  /\ Returned("evaluate")

\* C13: for every set of given derivative outputs, evaluate adds to a
\* per-thread accumulator only when the accumulators were allocated with
\* num_threads slots in this call, and the slot it writes is within
\* [0, num_threads): no write to a missing slot happens.
C13_AccumulatorWritesInBounds ==
  /\ ~oob_write
  /\ pc # "crashed"
  /\ \A t \in DOMAIN cur :
       cur[t] # NoWork =>
         /\ call.outs = OutputNames
         /\ DOMAIN Hs = Indices(num_threads)
         /\ cur[t].slot \in Indices(num_threads)

\* C14: in gicp, when a call of update_correspondences(delta) has returned,
\* also one that skipped the search, the weight of every source point is
\* the zero matrix if the point has no correspondence and otherwise the
\* weight computed from this call's delta and the covariance of the recorded
\* target index.
C14_WeightsFollowThisDelta ==
  (policy = "gicp" /\ pc = "returned" /\ call.refreshed) =>
    \A i \in Indices(source.size) :
      mahalanobis[i] =
        IF correspondences[i] < 0 THEN Zero44
        ELSE Mahalanobis(call.delta, i, correspondences[i])

\* a skipped refresh has replaced a weight computed at the searched pose
C14_Witness ==
  /\ policy = "gicp"
  /\ Returned("update_correspondences")
  /\ ~do_update
  /\ searched_at # Never
  /\ call.delta # searched_at
  /\ \E i \in DOMAIN correspondences :
       /\ correspondences[i] >= 0
       /\ mahalanobis[i] # Mahalanobis(searched_at, i, correspondences[i])
  /\ \E i \in DOMAIN correspondences : correspondences[i] < 0

\* C15: in every sequence of calls from construction, the tolerance
\* comparison reads last_correspondence_point only after an earlier call of
\* update_correspondences has written it, also for an empty source cloud
\* with a positive tolerance.
C15_ReferenceReadAfterWritten ==
  [][ ( /\ pc = "idle"
        /\ pc' = "update"
        /\ Size(correspondences) = source.size
        /\ \/ correspondence_update_tolerance_trans > 0
           \/ correspondence_update_tolerance_rot > 0 )
      => (last_correspondence_point # Uninit /\ ~read_uninit') ]_vars

\* C16: with exactly one of the two tolerances zero and the other positive,
\* no call of update_correspondences skips the search: a zero tolerance is
\* never strictly above an angle or a norm, so every call queries the
\* provider for every source point.
C16_OneZeroToleranceNeverSkips ==
  ( /\ pc \in {"update", "returned"}
    /\ call.refreshed
    /\ (correspondence_update_tolerance_rot = 0)
         # (correspondence_update_tolerance_trans = 0) )
    => /\ do_update
       /\ searched_at = call.delta
       /\ queries = Cardinality(Indices(source.size) \ pending)
       /\ Indices(source.size) \ pending \subseteq knn_written

\* a call for the very pose of the reference, with zero rotation tolerance
\* and positive translation tolerance, has searched for every point
C16_Witness ==
  /\ policy = "color"
  /\ pc = "update"
  /\ call.entry_match
  /\ correspondence_update_tolerance_rot = 0
  /\ correspondence_update_tolerance_trans > 0
  /\ last_correspondence_point = call.delta
  /\ source.size = MaxSource
  /\ pending = {}
  /\ queries = MaxSource

\* C17: with all five outputs given, each output block after evaluate is the
\* sum of this call's per-thread accumulators, whatever the block held on
\* entry; with at least one output omitted, evaluate writes no output block
\* and still returns the cost.
C17_OutputsOverwrittenOrUntouched ==
  [][ /\ (pc = "evaluate" /\ pc' = "returned") =>
           /\ ret' = SumScalars(sum_errors, num_threads)
           /\ call.outs = OutputNames =>
                outputs' = [o \in OutputNames |-> SumBlocks(Hs, num_threads)[o]]
      /\ (call.op = "evaluate" /\ call.outs # OutputNames /\ call' = call) =>
           /\ outputs' = outputs
           /\ pc' # "crashed"
    ]_vars

\* C17 without the calls that give H_target and omit another output
C17_OutsideH_targetSubsets ==
  [][ /\ (pc = "evaluate" /\ pc' = "returned") =>
           /\ ret' = SumScalars(sum_errors, num_threads)
           /\ call.outs = OutputNames =>
                outputs' = [o \in OutputNames |-> SumBlocks(Hs, num_threads)[o]]
      /\ ( /\ call.op = "evaluate" /\ call.outs # OutputNames /\ call' = call
           /\ (policy = "gicp" \/ "H_target" \notin call.outs) ) =>
           /\ outputs' = outputs
           /\ pc' # "crashed"
    ]_vars

C19_WeightActsOn3DOnly ==
  policy = "gicp" =>
    \A i \in DOMAIN mahalanobis :
      (mahalanobis[i] # Uninit /\ i \in DOMAIN correspondences
         /\ correspondences[i] >= 0 /\ (pc = "update" => i \notin pending))
        => \A k \in 1..4 :
             /\ mahalanobis[i].n[4][k] = 0
             /\ mahalanobis[i].n[k][4] = 0

\* C19 for source covariances whose 4th row and column are zero
C19_ForZeroHomogeneousCovariances ==
  policy = "gicp" =>
    \A i \in DOMAIN mahalanobis :
      (mahalanobis[i] # Uninit /\ i \in DOMAIN correspondences
         /\ correspondences[i] >= 0 /\ (pc = "update" => i \notin pending)
         /\ \A k \in 1..4 : SourceCov(i)[4][k] = 0 /\ SourceCov(i)[k][4] = 0)
        => \A k \in 1..4 :
             /\ mahalanobis[i].n[4][k] = 0
             /\ mahalanobis[i].n[k][4] = 0

====
